---- MODULE Spec2Model ----
(***************************************************************************)
(* A model of the Relay virtual machine prototype:                         *)
(*   src/src/relay/vm/inline_primitives.cc  (the primitive inliner)        *)
(*   src/src/relay/vm/vm.cc                 (bytecode compiler, linker and *)
(*                                           interpreter)                  *)
(* Indices (pc, bp, stack slots, instruction offsets) keep the 0-based     *)
(* values of the C++ code; sequences are read through At(s, i).            *)
(***************************************************************************)
EXTENDS Integers, Sequences, FiniteSets, TLC

VARIABLES
  \* ---- inliner (inline_primitives.cc) ----
  mods,        \* the module objects: handle -> sequence of functions
  passed,      \* handle of the module given to the first InlinePrimitives
  returned,    \* handle returned by the last InlinePrimitives (0: none yet)
  orig,        \* history: the functions of the passed module before the call
  once,        \* history: the functions of the module after the first call
  ncalls,      \* number of InlinePrimitives calls made
  \* ---- compiler and interpreter (vm.cc) ----
  irmod,       \* the IR module handed to CompileModule
  status,      \* "start", "compile_failed", "idle", "running", "fatal",
               \* "undefined" (the run left defined behaviour)
  failed,      \* the CHECK that ended the compilation or the run ("none")
  functions,   \* VirtualMachine::functions
  packed_funcs, \* VirtualMachine::packed_funcs
  stack,       \* VirtualMachine::stack: 0 is the empty VMObject, h > 0 a
               \* tensor object whose NDArray is store[h]
  frames,      \* VirtualMachine::frames
  pc, bp, func_index, code,   \* VirtualMachine's registers
  stack_start, \* the local of Run: frames.size() on entry
  store,       \* the NDArrays: handle -> [dtype, data, init]
  entry,       \* history: the Invoke in progress or last returned
  ninvokes,    \* number of Invoke calls made
  \* ---- Instruction objects (vm.cc, lines 19-128) ----
  objs,        \* the Instruction objects made so far: [instr, live]
  heap,        \* the int64_t arrays made by new[]: [data, freed]
  os,          \* what the last InstructionPrint wrote to its stream
  shown,       \* index in objs of the instruction it printed (0: none yet)
  nsteps       \* number of operations made on Instruction objects

ivars == <<mods, passed, returned, orig, once, ncalls>>

vmvars == <<irmod, status, failed, functions, packed_funcs, stack, frames,
            pc, bp, func_index, code, stack_start, store, entry, ninvokes>>

objvars == <<objs, heap, os, shown, nsteps>>

vars == <<ivars, vmvars, objvars>>

(***************************************************************************)
(* Bounds of the model.                                                    *)
(***************************************************************************)
MaxSize == 3
MaxCalls == 2
MaxDepth == 2
MaxInvokes == 2
MaxHandLen == 2
MaxOperand == 2
MaxObjSteps == 3

(***************************************************************************)
(* Generic helpers.                                                        *)
(***************************************************************************)
At(s, i) == s[i + 1]

Last(s) == s[Len(s)]

SeqOf(x, n) == [i \in 1..n |-> x]

EmptyMap == [x \in {} |-> 0]

(***************************************************************************)
(* The IR (consumed by both stages).  A Var is an identity, named here by  *)
(* a string; a primitive function literal is opaque apart from its name,   *)
(* its parameter count and the kernel the engine lowers it to.             *)
(***************************************************************************)
VarNode_make(n) == [kind |-> "Var", name |-> n]

GlobalVarNode_make(n) == [kind |-> "GlobalVar", name |-> n]

Prim(n, k) == [kind |-> "Function", primitive |-> TRUE, name |-> n, nparams |-> k]

Closure(ps, b) == [kind |-> "Function", primitive |-> FALSE, params |-> ps, body |-> b]

LetNode_make(v, val, b) == [kind |-> "Let", var |-> v, value |-> val, body |-> b]

IfNode_make(c, t, f) == [kind |-> "If", cond |-> c, true_branch |-> t, false_branch |-> f]

\* A type-checked call: checked_type is what type inference attached.
TypedCall(op, args, attrs, targs, ty) ==
  [kind |-> "Call", op |-> op, args |-> args, attrs |-> attrs,
   type_args |-> targs, checked_type |-> ty]

TensorType(shape, dtype) == [tensor |-> TRUE, shape |-> shape, dtype |-> dtype]

\* A type that is not a tensor type (a tuple, a function type, not inferred).
OtherType(what) == [tensor |-> FALSE, shape |-> <<>>, dtype |-> what]

\* CallNode::make builds a fresh node: its checked_type is not set.
CallNode_make(op, args, attrs, targs) ==
  TypedCall(op, args, attrs, targs, OtherType("unset"))

F32 == TensorType(<<4>>, "float32")

BoolT == TensorType(<<>>, "bool")

\* A top-level function of a module.
FunctionNode_make(ps, b) == [params |-> ps, body |-> b]

IsPrimitive(e) == e.kind = "Function" /\ e.primitive

(***************************************************************************)
(* inline_primitives.cc: PrimitiveInliner.                                 *)
(* The mutator threads var_map (Var -> Expr) through the traversal: every  *)
(* visit returns the rewritten expression and the map as it then stands.   *)
(* The IR is taken to be a tree (no node shared between two places), so    *)
(* the memo table of ExprMutator never answers for a different context.    *)
(***************************************************************************)
Visited(e, vm) == [e |-> e, vm |-> vm]

\* std::unordered_map::insert: an existing key keeps its value.
MapInsert(vm, k, v) ==
  IF k \in DOMAIN vm THEN vm
  ELSE [x \in DOMAIN vm \cup {k} |-> IF x = k THEN v ELSE vm[x]]

\* A single lookup of op in var_map: what an `if` in place of the `while`
\* of VisitExpr_(CallNode) would compute.
CollapseChainOneStep(op, vm) ==
  IF op.kind = "Var"
  THEN IF op.name \in DOMAIN vm
       THEN [found |-> TRUE, op |-> vm[op.name]]
       ELSE [found |-> FALSE, op |-> op]
  ELSE [found |-> TRUE, op |-> op]

\* The while loop of VisitExpr_(CallNode): follow op through var_map while
\* it is a Var; found = FALSE when a Var is not in the map.
RECURSIVE CollapseChain(_, _)
CollapseChain(op, vm) ==
  IF op.kind = "Var"
  THEN IF op.name \in DOMAIN vm
       THEN CollapseChain(vm[op.name], vm)
       ELSE [found |-> FALSE, op |-> op]
  ELSE [found |-> TRUE, op |-> op]

RECURSIVE VisitExpr(_, _)
RECURSIVE MutateArgs(_, _, _)

\* ExprMutator: visit args[i..] left to right, threading var_map.
MutateArgs(args, i, vm) ==
  IF i > Len(args) THEN Visited(<<>>, vm)
  ELSE LET h == VisitExpr(args[i], vm)
           t == MutateArgs(args, i + 1, h.vm)
       IN Visited(<<h.e>> \o t.e, t.vm)

\* ExprMutator::VisitExpr_(CallNode): the default traversal rewrites the
\* operator and the arguments and keeps the node when nothing changed.
ExprMutator_Call(call, vm) ==
  LET o == VisitExpr(call.op, vm)
      a == MutateArgs(call.args, 1, o.vm)
  IN IF o.e = call.op /\ a.e = call.args
     THEN Visited(call, a.vm)
     ELSE Visited(CallNode_make(o.e, a.e, call.attrs, call.type_args), a.vm)

\* ExprMutator::VisitExpr_(IfNode).
ExprMutator_If(e, vm) ==
  LET c == VisitExpr(e.cond, vm)
      t == VisitExpr(e.true_branch, c.vm)
      f == VisitExpr(e.false_branch, t.vm)
  IN Visited(IfNode_make(c.e, t.e, f.e), f.vm)

\* ExprMutator::VisitExpr_(FunctionNode): the body is rewritten.
ExprMutator_Function(fn, vm) ==
  LET b == VisitExpr(fn.body, vm)
  IN Visited(Closure(fn.params, b.e), b.vm)

\* PrimitiveInliner::VisitExpr_(LetNode): the rewritten value is recorded
\* under the let's variable, then the default traversal rebuilds the let
\* (the value's rewrite comes from the memo table, the body is visited).
VisitLet(let, vm) ==
  LET v == VisitExpr(let.value, vm)
      vm1 == MapInsert(v.vm, let.var, v.e)
      b == VisitExpr(let.body, vm1)
  IN Visited(LetNode_make(let.var, v.e, b.e), b.vm)

\* PrimitiveInliner::VisitExpr_(CallNode).
VisitCall(call, vm) ==
  LET r == CollapseChain(call.op, vm)
  IN IF ~r.found THEN ExprMutator_Call(call, vm)
     ELSE IF IsPrimitive(r.op)
       THEN Visited(CallNode_make(r.op, call.args, call.attrs, call.type_args), vm)
     ELSE IF r.op.kind = "GlobalVar"
       THEN Visited(CallNode_make(r.op, call.args, call.attrs, call.type_args), vm)
     ELSE ExprMutator_Call(call, vm)

\* PrimitiveInliner::VisitExpr_(FunctionNode).
VisitFunction(fn, vm) ==
  IF fn.primitive THEN Visited(fn, vm) ELSE ExprMutator_Function(fn, vm)

VisitExpr(e, vm) ==
  CASE e.kind = "Let" -> VisitLet(e, vm)
    [] e.kind = "Call" -> VisitCall(e, vm)
    [] e.kind = "Function" -> VisitFunction(e, vm)
    [] e.kind = "If" -> ExprMutator_If(e, vm)
    [] OTHER -> Visited(e, vm)

(***************************************************************************)
(* DeadCodeElimination, an external pass: a let whose variable the         *)
(* (cleaned) body does not use is replaced by its body.                    *)
(***************************************************************************)
RECURSIVE FreeVars(_)
RECURSIVE FreeVarsOfSeq(_, _)
FreeVarsOfSeq(es, i) ==
  IF i > Len(es) THEN {} ELSE FreeVars(es[i]) \cup FreeVarsOfSeq(es, i + 1)

FreeVars(e) ==
  CASE e.kind = "Var" -> {e.name}
    [] e.kind = "Let" -> FreeVars(e.value) \cup (FreeVars(e.body) \ {e.var})
    [] e.kind = "Call" -> FreeVars(e.op) \cup FreeVarsOfSeq(e.args, 1)
    [] e.kind = "If" ->
         FreeVars(e.cond) \cup FreeVars(e.true_branch) \cup FreeVars(e.false_branch)
    [] e.kind = "Function" ->
         IF e.primitive THEN {}
         ELSE FreeVars(e.body) \ {e.params[i] : i \in 1..Len(e.params)}
    [] OTHER -> {}

RECURSIVE DeadCodeElimination(_)
RECURSIVE DCESeq(_, _)
DCESeq(es, i) ==
  IF i > Len(es) THEN <<>> ELSE <<DeadCodeElimination(es[i])>> \o DCESeq(es, i + 1)

DeadCodeElimination(e) ==
  CASE e.kind = "Let" ->
         LET b == DeadCodeElimination(e.body)
         IN IF e.var \in FreeVars(b)
            THEN LetNode_make(e.var, DeadCodeElimination(e.value), b)
            ELSE b
    [] e.kind = "Call" ->
         [e EXCEPT !.op = DeadCodeElimination(e.op), !.args = DCESeq(e.args, 1)]
    [] e.kind = "If" ->
         IfNode_make(DeadCodeElimination(e.cond), DeadCodeElimination(e.true_branch),
            DeadCodeElimination(e.false_branch))
    [] e.kind = "Function" ->
         IF e.primitive THEN e
         ELSE Closure(e.params, DeadCodeElimination(e.body))
    [] OTHER -> e

\* Inline with the two passes swapped: the body is cleaned, then rewritten.
InlineDCEFirst(func, vm) ==
  LET b == VisitExpr(DeadCodeElimination(func.body), vm)
  IN [func |-> FunctionNode_make(func.params, b.e), vm |-> b.vm]

\* PrimitiveInliner::Inline: the body is rewritten, then cleaned.
Inline(func, vm) ==
  LET b == VisitExpr(func.body, vm)
  IN [func |-> FunctionNode_make(func.params, DeadCodeElimination(b.e)), vm |-> b.vm]

\* The first loop of InlinePrimitives: one inliner (one var_map) rewrites
\* the functions in the module's order and collects them in updates.
RECURSIVE InlineAll(_, _, _)
InlineAll(funcs, i, vm) ==
  IF i > Len(funcs) THEN <<>>
  ELSE LET r == Inline(funcs[i], vm)
       IN <<r.func>> \o InlineAll(funcs, i + 1, r.vm)

\* InlinePrimitives as a pure function would be: the updates go into a
\* fresh module object, which is returned.
InlinePrimitivesCopy(ms, h) ==
  [mods |-> Append(ms, InlineAll(ms[h], 1, EmptyMap)), ret |-> Len(ms) + 1]

\* InlinePrimitives(module): the second loop writes every update back into
\* the module object that was passed (module->Add(.., .., true)), and that
\* same object is returned.
InlinePrimitives(ms, h) ==
  [mods |-> [ms EXCEPT ![h] = InlineAll(ms[h], 1, EmptyMap)], ret |-> h]

(***************************************************************************)
(* Inputs of the inliner: type-checked, well-scoped function bodies.       *)
(* Function-typed variables are let-bound to a primitive literal, a global *)
(* name or an earlier such variable (an alias); tensor-typed variables are *)
(* the parameter and lets of tensor expressions.  Every call operator is a *)
(* function-typed variable in scope, a primitive literal or a global name. *)
(***************************************************************************)
FunNames == <<"p", "q", "r", "s", "o">>

TensorNames == <<"t", "u", "v", "w", "z">>

Neg == Prim("neg", 1)

Operators(fs) == {VarNode_make(v) : v \in fs} \cup {Neg, GlobalVarNode_make("g")}

Atoms(ts) == {VarNode_make(v) : v \in ts}

\* Tensor expressions with calls nested at most d deep; a call's attrs
\* records the depth it was generated at.
RECURSIVE TensorExprs(_, _, _)
TensorExprs(fs, ts, d) ==
  IF d = 0 THEN Atoms(ts)
  ELSE LET sub == TensorExprs(fs, ts, d - 1)
       IN sub
          \cup {TypedCall(op, <<a>>, d, <<>>, F32) : op \in Operators(fs), a \in sub}
          \cup {IfNode_make(VarNode_make("a"), x, y) : x \in sub \ Atoms(ts), y \in Atoms(ts)}

\* Bodies of size at most k: j lets (the i-th let binds the i-th name of
\* its kind) around a tensor expression with calls nested at most k - j deep.
RECURSIVE Bodies(_, _, _)
Bodies(fs, ts, k) ==
  TensorExprs(fs, ts, k)
  \cup (IF k = 0 THEN {}
        ELSE LET fv == FunNames[Cardinality(fs) + 1]
                 tv == TensorNames[Cardinality(ts)]
             IN {LetNode_make(fv, val, b) :
                   val \in Operators(fs), b \in Bodies(fs \cup {fv}, ts, k - 1)}
                \cup {LetNode_make(tv, val, b) :
                   val \in TensorExprs(fs, ts, 1) \ Atoms(ts),
                   b \in Bodies(fs, ts \cup {tv}, k - 1)})

\* A second function of the module, with variables of its own.
SecondFunctions ==
  { FunctionNode_make(<<"b">>, VarNode_make("b")),
    FunctionNode_make(<<"b">>,
      LetNode_make("f", Neg, LetNode_make("h", VarNode_make("f"),
        TypedCall(VarNode_make("h"), <<VarNode_make("b")>>, 0, <<>>, F32)))) }

InlineModules ==
  LET firsts == {FunctionNode_make(<<"a">>, b) : b \in Bodies({}, {"a"}, MaxSize)}
  IN {<<f>> : f \in firsts}
     \cup {<<f, g>> : f \in firsts, g \in SecondFunctions}

(***************************************************************************)
(* The inliner as a state machine: InlinePrimitives is called on a module, *)
(* then again on the module it returned.                                   *)
(***************************************************************************)
InitInline ==
  /\ \E m \in InlineModules : mods = <<m>> /\ orig = m
  /\ passed = 1
  /\ returned = 0
  /\ once = <<>>
  /\ ncalls = 0
  /\ irmod = <<>>
  /\ status = "start"
  /\ failed = "none"
  /\ functions = <<>>
  /\ packed_funcs = <<>>
  /\ stack = <<>>
  /\ frames = <<>>
  /\ pc = 0
  /\ bp = 0
  /\ func_index = 0
  /\ code = <<>>
  /\ stack_start = 0
  /\ store = <<>>
  /\ entry = <<>>
  /\ ninvokes = 0
  /\ objs = <<>>
  /\ heap = <<>>
  /\ os = <<>>
  /\ shown = 0
  /\ nsteps = 0

CallInlinePrimitives ==
  /\ ncalls < MaxCalls
  /\ LET h == IF ncalls = 0 THEN passed ELSE returned
         r == InlinePrimitives(mods, h)
     IN /\ mods' = r.mods
        /\ returned' = r.ret
        /\ once' = IF ncalls = 0 THEN r.mods[r.ret] ELSE once
  /\ ncalls' = ncalls + 1
  /\ UNCHANGED <<passed, orig>>

NextInline == CallInlinePrimitives /\ UNCHANGED <<vmvars, objvars>>

SpecInline == InitInline /\ [][NextInline]_vars

(***************************************************************************)
(* Properties of the inliner (stated for SpecInline).                     *)
(***************************************************************************)
\* Some call of e, at any depth, has a Var as its operator.
RECURSIVE HasVarOperator(_)
RECURSIVE AnyHasVarOperator(_, _)
AnyHasVarOperator(es, i) ==
  IF i > Len(es) THEN FALSE
  ELSE HasVarOperator(es[i]) \/ AnyHasVarOperator(es, i + 1)

HasVarOperator(e) ==
  CASE e.kind = "Call" ->
         e.op.kind = "Var" \/ HasVarOperator(e.op) \/ AnyHasVarOperator(e.args, 1)
    [] e.kind = "Let" -> HasVarOperator(e.value) \/ HasVarOperator(e.body)
    [] e.kind = "If" ->
         HasVarOperator(e.cond) \/ HasVarOperator(e.true_branch)
           \/ HasVarOperator(e.false_branch)
    [] e.kind = "Function" -> IF e.primitive THEN FALSE ELSE HasVarOperator(e.body)
    [] OTHER -> FALSE

\* C3: after InlinePrimitives, no call in any function body of the module,
\* calls nested in the arguments of other calls included, has a variable
\* as its operator.
C3_NoVariableOperator ==
  ncalls >= 1 =>
    \A i \in 1..Len(mods[returned]) : ~HasVarOperator(mods[returned][i].body)

\* C6: InlinePrimitives applied to the module it returned yields a module
\* equal, function by function, to the module after the first application.
C6_Idempotent ==
  ncalls >= 2 =>
    /\ Len(mods[returned]) = Len(once)
    /\ \A i \in 1..Len(once) : mods[returned][i] = once[i]

\* C6 witness: the second application has run on a module that the first
\* application changed (an alias chain was collapsed and its lets removed).
C6_Witness ==
  /\ ncalls = 2
  /\ \E i \in 1..Len(orig) :
       /\ orig[i].body.kind = "Let"
       /\ orig[i].body.body.kind = "Let"
       /\ once[i].body.kind = "Call"
       /\ IsPrimitive(once[i].body.op)

\* The expression under the lets of a body.
RECURSIVE SpineEnd(_)
SpineEnd(e) == IF e.kind = "Let" THEN SpineEnd(e.body) ELSE e

\* The value the lets around the spine end bind to variable v ("none"
\* when no let of the spine binds it).
RECURSIVE SpineBinding(_, _)
SpineBinding(e, v) ==
  IF e.kind # "Let" THEN [kind |-> "none"]
  ELSE IF e.var = v THEN e.value
  ELSE SpineBinding(e.body, v)

\* The number of alias steps from operator op to a primitive literal
\* through the lets of body (-1 when the chain does not end in one).
RECURSIVE AliasSteps(_, _)
AliasSteps(body, op) ==
  IF IsPrimitive(op) THEN 0
  ELSE IF op.kind # "Var" THEN 0 - 1
  ELSE LET n == AliasSteps(body, SpineBinding(body, op.name))
       IN IF n < 0 THEN n ELSE n + 1

RECURSIVE AliasTarget(_, _)
AliasTarget(body, op) ==
  IF op.kind = "Var" THEN AliasTarget(body, SpineBinding(body, op.name)) ELSE op

\* Function i of the input ends in a call whose operator is a variable
\* that reaches a primitive literal through at least n let-bound aliases.
AliasedCall(i, n) ==
  LET c == SpineEnd(orig[i].body)
  IN /\ c.kind = "Call"
     /\ c.op.kind = "Var"
     /\ AliasSteps(orig[i].body, c.op) >= n

\* C7: a call whose operator is a variable that reaches a primitive literal
\* through a chain of let-bound aliases is replaced by a call of that
\* literal with the arguments, attributes and type arguments of the
\* original call.
C7_AliasChainCollapsed ==
  ncalls >= 1 =>
    \A i \in 1..Len(orig) :
      AliasedCall(i, 1) =>
        LET c == SpineEnd(orig[i].body)
            d == SpineEnd(once[i].body)
        IN /\ d.kind = "Call"
           /\ d.op = AliasTarget(orig[i].body, c.op)
           /\ IsPrimitive(d.op)
           /\ d.args = c.args
           /\ d.attrs = c.attrs
           /\ d.type_args = c.type_args

\* C7 witness: the inliner has run on a call through two aliases
\* (let p = <primitive>; let q = p; q(..)).
C7_Witness ==
  /\ ncalls = 1
  /\ \E i \in 1..Len(orig) : AliasedCall(i, 2)

\* C8 as stated: after InlinePrimitives(m) returns, m still maps every
\* global name to the function it mapped to before the call.
C8_InputModuleUntouched ==
  ncalls >= 1 =>
    /\ Len(mods[passed]) = Len(orig)
    /\ \A i \in 1..Len(orig) : mods[passed][i] = orig[i]

\* C8 amended: InlinePrimitives rewrites the module in place; the module
\* it returns is the module object it was passed, no other module object
\* is made, and that object has the same global names and parameters.
C8_RewritesInPlace ==
  ncalls >= 1 =>
    /\ returned = passed
    /\ Len(mods) = 1
    /\ Len(mods[passed]) = Len(orig)
    /\ \A i \in 1..Len(orig) : mods[passed][i].params = orig[i].params

\* C8 witness: a call has returned and the passed module now holds a
\* rewritten function.
C8_Witness ==
  /\ ncalls = 1
  /\ returned = passed
  /\ \E i \in 1..Len(orig) : mods[passed][i] # orig[i]

(***************************************************************************)
(* vm.cc: instructions.                                                    *)
(***************************************************************************)
\* The hard cap on a packed call's arity (CHECK(arity < 10)).
ArityCap == 10

Push(stack_index) == [op |-> "Push", stack_index |-> stack_index]

Ret == [op |-> "Ret"]

InvokePacked(packed_index, arity) ==
  [op |-> "InvokePacked", packed_index |-> packed_index, arity |-> arity]

AllocTensor(shape, dtype) ==
  [op |-> "AllocTensor",
   tensor_info |-> [shape |-> shape, ndim |-> Len(shape), dtype |-> dtype]]

\* If with the two offsets stored in each other's field.
IfSwapped(true_branch, false_branch) ==
  [op |-> "If", true_offset |-> false_branch, false_offset |-> true_branch]

If(true_branch, false_branch) ==
  [op |-> "If", true_offset |-> true_branch, false_offset |-> false_branch]

\* The reserved opcode; vm.cc has no constructor for it.
Invoke(index) == [op |-> "Invoke", func_index |-> index]

VMFunction(params, instructions) ==
  [params |-> params, instructions |-> instructions]

(***************************************************************************)
(* vm.cc: VMCompiler.  A failed CHECK ends the compilation: failed names   *)
(* the check, and every later step leaves the compiler as it is.           *)
(***************************************************************************)
NewVMCompiler ==
  [instructions |-> <<>>, var_map |-> EmptyMap, stack_index |-> 0,
   seen_func |-> FALSE, lowered_funcs |-> <<>>, failed |-> "none"]

Fail(c, why) == [c EXCEPT !.failed = why]

Emit(c, instr) == [c EXCEPT !.instructions = Append(@, instr)]

\* The compile engine (external): a primitive lowers to one kernel, named
\* after it, that takes the primitive's inputs and the output tensor.
Lower(prim) == <<[name |-> prim.name, nargs |-> prim.nparams + 1]>>

\* The capacity test with the bound included (arity <= 10).
ArityAllowedInclusive(arity) == arity <= ArityCap

\* CHECK(arity < 10).
ArityAllowed(arity) == arity < ArityCap

RECURSIVE CompileExpr(_, _)
RECURSIVE CompileArgs(_, _, _)

\* VisitExpr_(const VarNode*).
Compile_Var(c, var) ==
  IF var.name \in DOMAIN c.var_map
  THEN Emit(c, Push(c.var_map[var.name]))
  ELSE Fail(c, "unbound variable")

\* VisitExpr_(const IfNode*) with false_offset measured to the end of the
\* false branch.
Compile_IfSkipBoth(c, if_node) ==
  LET c1 == CompileExpr(c, if_node.cond)
      after_cond == Len(c1.instructions)
      c2 == Emit(c1, If(0, 0))
      c3 == CompileExpr(c2, if_node.true_branch)
      c4 == CompileExpr(c3, if_node.false_branch)
      after_false == Len(c4.instructions)
  IN IF c4.failed # "none" THEN c4
     ELSE [c4 EXCEPT !.instructions[after_cond + 1] = If(1, (after_false - after_cond) + 1)]

\* VisitExpr_(const IfNode*) without the patch: the placeholder stays.
Compile_IfUnpatched(c, if_node) ==
  LET c1 == CompileExpr(c, if_node.cond)
      c2 == Emit(c1, If(0, 0))
      c3 == CompileExpr(c2, if_node.true_branch)
  IN CompileExpr(c3, if_node.false_branch)

\* VisitExpr_(const IfNode*): the placeholder If(0, 0) at after_cond is
\* patched once both branches are emitted.
Compile_If(c, if_node) ==
  LET c1 == CompileExpr(c, if_node.cond)
      after_cond == Len(c1.instructions)
      c2 == Emit(c1, If(0, 0))
      c3 == CompileExpr(c2, if_node.true_branch)
      after_true == Len(c3.instructions)
      c4 == CompileExpr(c3, if_node.false_branch)
      true_offset == 1
      false_offset == after_true - after_cond
  IN IF c4.failed # "none" THEN c4
     ELSE [c4 EXCEPT !.instructions[after_cond + 1] = If(true_offset, false_offset)]

\* for (auto arg : call_node->args) this->VisitExpr(arg).
CompileArgs(c, args, i) ==
  IF i > Len(args) \/ c.failed # "none" THEN c
  ELSE CompileArgs(CompileExpr(c, args[i]), args, i + 1)

\* VisitExpr_(const CallNode*) with the result tensor allocated before the
\* arguments are pushed.
Compile_CallAllocFirst(c, call_node) ==
  LET func_node == call_node.op
  IN IF func_node.kind # "Function" THEN Fail(c, "operator is not a function")
     ELSE
       LET ttype == call_node.checked_type
           c1 == Emit(c, AllocTensor(ttype.shape, ttype.dtype))
           c2 == CompileArgs(c1, call_node.args, 1)
           cfunc == Lower(func_node)
           op_index == Len(c2.lowered_funcs)
           c3 == [c2 EXCEPT !.lowered_funcs = Append(@, cfunc[1])]
           arity == func_node.nparams + 1
       IN IF ~ttype.tensor THEN Fail(c, "result is not a tensor")
          ELSE IF c2.failed # "none" THEN c2
          ELSE IF ~func_node.primitive THEN Fail(c2, "operator is not primitive")
          ELSE IF Len(cfunc) # 1 THEN Fail(c2, "not one lowered function")
          ELSE IF ~ArityAllowed(arity) THEN Fail(c3, "arity cap")
          ELSE Emit(c3, InvokePacked(op_index, arity))

\* VisitExpr_(const CallNode*).
Compile_Call(c, call_node) ==
  LET func_node == call_node.op
  IN IF func_node.kind # "Function" THEN Fail(c, "operator is not a function")
     ELSE
       LET c1 == CompileArgs(c, call_node.args, 1)
           ttype == call_node.checked_type
           c2 == Emit(c1, AllocTensor(ttype.shape, ttype.dtype))
           cfunc == Lower(func_node)
           op_index == Len(c2.lowered_funcs)
           c3 == [c2 EXCEPT !.lowered_funcs = Append(@, cfunc[1])]
           arity == func_node.nparams + 1
       IN IF c1.failed # "none" THEN c1
          ELSE IF ~ttype.tensor THEN Fail(c1, "result is not a tensor")
          ELSE IF ~func_node.primitive THEN Fail(c2, "operator is not primitive")
          ELSE IF Len(cfunc) # 1 THEN Fail(c2, "not one lowered function")
          ELSE IF ~ArityAllowed(arity) THEN Fail(c3, "arity cap")
          ELSE Emit(c3, InvokePacked(op_index, arity))

\* The parameter loop assigning the slots last parameter first.
RECURSIVE BindParamsReversed(_, _, _)
BindParamsReversed(c, params, i) ==
  IF i > Len(params) THEN c
  ELSE BindParamsReversed(
         [c EXCEPT !.var_map = MapInsert(@, params[i], Len(params) - i),
                   !.stack_index = @ + 1],
         params, i + 1)

\* var_map.insert({param, this->stack_index++}) for each parameter.
RECURSIVE BindParams(_, _, _)
BindParams(c, params, i) ==
  IF i > Len(params) THEN c
  ELSE BindParams(
         [c EXCEPT !.var_map = MapInsert(@, params[i], c.stack_index),
                   !.stack_index = @ + 1],
         params, i + 1)

\* VisitExpr_(const FunctionNode*): the outermost function, once.
Compile_Function(c, func_node) ==
  IF c.seen_func THEN Fail(c, "nested function")
  ELSE CompileExpr(BindParams([c EXCEPT !.seen_func = TRUE], func_node.params, 1),
                   func_node.body)

\* ExprFunctor dispatch; a node kind VMCompiler has no visitor for (a let,
\* a global name) ends in the functor's fatal default.
CompileExpr(c, e) ==
  IF c.failed # "none" THEN c
  ELSE CASE e.kind = "Var" -> Compile_Var(c, e)
         [] e.kind = "If" -> Compile_If(c, e)
         [] e.kind = "Call" -> Compile_Call(c, e)
         [] e.kind = "Function" -> Compile_Function(c, e)
         [] OTHER -> Fail(c, "no visitor")

\* CompileFunc: {ok, lowered_funcs, vm_func}; ok is FALSE when a CHECK of
\* the compiler failed (no VM function is produced).
CompileFunc(func) ==
  LET params == Len(func.params)
      c == Compile_Function(NewVMCompiler, func)
  IN [ok |-> c.failed = "none",
      failed |-> c.failed,
      lowered_funcs |-> c.lowered_funcs,
      vm_func |-> VMFunction(params, Append(c.instructions, Ret))]

\* PopulatePackedFuncMap: the backend builds one module from the lowered
\* functions; each packed function is fetched from it by its kernel's name.
PopulatePackedFuncMap(lowered_funcs) ==
  [i \in 1..Len(lowered_funcs) |-> lowered_funcs[i]]

\* CompileModule: {ok, functions, packed_funcs}.
RECURSIVE CompileAll(_, _)
CompileAll(funcs, i) ==
  IF i > Len(funcs) THEN [ok |-> TRUE, failed |-> "none", lowered |-> <<>>, functions |-> <<>>]
  ELSE LET cfunc == CompileFunc(funcs[i])
           rest == CompileAll(funcs, i + 1)
       IN IF ~cfunc.ok
          THEN [ok |-> FALSE, failed |-> cfunc.failed, lowered |-> <<>>, functions |-> <<>>]
          ELSE IF ~rest.ok THEN rest
          ELSE [ok |-> TRUE, failed |-> "none",
                lowered |-> cfunc.lowered_funcs \o rest.lowered,
                functions |-> <<cfunc.vm_func>> \o rest.functions]

CompileModule(mod) ==
  LET all == CompileAll(mod, 1)
  IN [ok |-> all.ok, failed |-> all.failed,
      functions |-> all.functions,
      packed_funcs |-> PopulatePackedFuncMap(all.lowered)]

(***************************************************************************)
(* vm.cc: the interpreter.                                                 *)
(***************************************************************************)
\* size_t arithmetic: a difference that would be negative wraps around.
\* SizeModulus stands for 2^64; any modulus above every stack height gives
\* the same comparisons.
SizeModulus == 2 ^ 30

SizeSub(a, b) == (a - b) % SizeModulus

\* What a kernel computes from the data of its inputs.
RECURSIVE SumOf(_, _)
SumOf(xs, i) == IF i > Len(xs) THEN 0 ELSE xs[i] + SumOf(xs, i + 1)

KernelApply(name, ins) ==
  CASE name = "neg" -> 0 - ins[1]
    [] name = "big" -> IF ins[1] > 8 THEN 1 ELSE 0
    [] OTHER -> SumOf(ins, 1)

\* The empty VMObject (VMObject()), as a stack slot.
NullObject == 0

VMFrame(ret_pc, saved_bp, saved_func_index, arg_count, saved_code) ==
  [pc |-> ret_pc, bp |-> saved_bp, func_index |-> saved_func_index,
   args |-> arg_count, code |-> saved_code]

\* PopFrame returning the number of frames left after the pop.
PopFrameCountAfter ==
  LET fr == Last(frames)
      stack_size == Len(stack)
      slot == SizeSub(SizeSub(stack_size, fr.args), 1)
  IN IF ~(slot < Len(stack))
     THEN [ok |-> FALSE]
     ELSE [ok |-> TRUE,
           stack |-> SubSeq([stack EXCEPT ![slot + 1] = stack[stack_size]],
                            1, stack_size - fr.args),
           bp |-> fr.bp, pc |-> fr.pc, func_index |-> fr.func_index,
           code |-> fr.code,
           frames |-> SubSeq(frames, 1, Len(frames) - 1),
           ret |-> Len(frames) - 1]

\* PopFrame, past CHECK(frames.size() != 0): ok is FALSE when the CHECK on
\* the return slot fails; ret is the frame count before the pop.
PopFrame ==
  LET fr == Last(frames)
      stack_size == Len(stack)
      slot == SizeSub(SizeSub(stack_size, fr.args), 1)
  IN IF ~(slot < Len(stack))
     THEN [ok |-> FALSE]
     ELSE [ok |-> TRUE,
           stack |-> SubSeq([stack EXCEPT ![slot + 1] = stack[stack_size]],
                            1, stack_size - fr.args),
           bp |-> fr.bp, pc |-> fr.pc, func_index |-> fr.func_index,
           code |-> fr.code,
           frames |-> SubSeq(frames, 1, Len(frames) - 1),
           ret |-> Len(frames)]

Running == status = "running"

Fetchable == Running /\ pc >= 0 /\ pc < Len(code)

Instr == At(code, pc)

Halt(how, why) ==
  /\ status' = how
  /\ failed' = why

\* VirtualMachine::Invoke up to the first fetch: InvokeGlobal (return slot,
\* arguments, frame, registers) and the prologue of Run.
DoInvoke(func, args) ==
  LET stack_before == Len(stack)
      pushed == (stack \o <<NullObject>>) \o args
      frame == VMFrame(pc + 1, bp, func_index, func.params, code)
  IN /\ stack' = pushed
     /\ frames' = Append(frames, frame)
     /\ entry' = [func |-> func, args |-> args, height |-> stack_before,
                  frames |-> Len(frames), pc |-> pc, bp |-> bp,
                  func_index |-> func_index, code |-> code]
     /\ ninvokes' = ninvokes + 1
     /\ IF stack_before + func.params + 1 # Len(pushed)
        THEN /\ Halt("fatal", "argument count")
             /\ UNCHANGED <<code, pc, bp, stack_start>>
        ELSE /\ code' = func.instructions
             /\ pc' = 0
             /\ bp' = Len(pushed) - func.params
             /\ stack_start' = Len(frames) + 1
             /\ IF func.instructions = <<>>
                THEN Halt("fatal", "no code")
                ELSE Halt("running", "none")
     /\ UNCHANGED <<ivars, objvars, irmod, functions, packed_funcs, func_index, store>>

\* case Opcode::Invoke: LOG(FATAL).
ExecInvoke ==
  /\ Fetchable /\ Instr.op = "Invoke"
  /\ Halt("fatal", "invoke")
  /\ UNCHANGED <<ivars, objvars, irmod, functions, packed_funcs, stack, frames, pc, bp,
                 func_index, code, stack_start, store, entry, ninvokes>>

\* case Opcode::Push.
ExecPush ==
  /\ Fetchable /\ Instr.op = "Push"
  /\ IF bp + Instr.stack_index < Len(stack)
     THEN /\ stack' = Append(stack, At(stack, bp + Instr.stack_index))
          /\ pc' = pc + 1
          /\ UNCHANGED <<status, failed>>
     ELSE /\ Halt("fatal", "push slot")
          /\ UNCHANGED <<stack, pc>>
  /\ UNCHANGED <<ivars, objvars, irmod, functions, packed_funcs, frames, bp, func_index, code,
                 stack_start, store, entry, ninvokes>>

\* case Opcode::AllocTensor: NDArray::Empty leaves the data uninitialised.
ExecAllocTensor ==
  /\ Fetchable /\ Instr.op = "AllocTensor"
  /\ store' = Append(store, [dtype |-> Instr.tensor_info.dtype, data |-> 0,
                             init |-> FALSE])
  /\ stack' = Append(stack, Len(store) + 1)
  /\ pc' = pc + 1
  /\ UNCHANGED <<ivars, objvars, irmod, status, failed, functions, packed_funcs, frames, bp,
                 func_index, code, stack_start, entry, ninvokes>>

\* case Opcode::If.  stack.back() is not guarded; the condition must be a
\* tensor (ToNDArray) of dtype bool; byte 0 of its data decides.
ExecIf ==
  /\ Fetchable /\ Instr.op = "If"
  /\ IF Len(stack) = 0
     THEN /\ Halt("undefined", "back() of an empty stack")
          /\ UNCHANGED <<stack, pc>>
     ELSE IF Last(stack) = NullObject
     THEN /\ Halt("fatal", "not a tensor")
          /\ UNCHANGED <<stack, pc>>
     ELSE IF store[Last(stack)].dtype # "bool"
     THEN /\ Halt("fatal", "condition is not bool")
          /\ UNCHANGED <<stack, pc>>
     ELSE \E branch \in BOOLEAN :
            /\ store[Last(stack)].init => (branch <=> store[Last(stack)].data # 0)
            /\ stack' = SubSeq(stack, 1, Len(stack) - 1)
            /\ pc' = IF branch THEN pc + Instr.true_offset
                     ELSE pc + Instr.false_offset
            /\ UNCHANGED <<status, failed>>
  /\ UNCHANGED <<ivars, objvars, irmod, functions, packed_funcs, frames, bp, func_index, code,
                 stack_start, store, entry, ninvokes>>

\* The collapse with the copy left out: the stack is only resized.
CollapseStackResizeOnly(stk, arg_count) ==
  SubSeq(stk, 1, Len(stk) - arg_count + 1)

\* stack[stack.size() - arg_count] = stack[stack.size() - 1], then
\* stack.resize(stack.size() - arg_count + 1), for 1 <= arg_count <= size.
CollapseStack(stk, arg_count) ==
  SubSeq([stk EXCEPT ![Len(stk) - arg_count + 1] = stk[Len(stk)]],
         1, Len(stk) - arg_count + 1)

\* InvokePacked(func, arg_count, stack) and its caller, case
\* Opcode::InvokePacked.  The arguments are the top arg_count slots, each a
\* tensor (ToNDArray); the kernel writes its result into the last one.  A
\* packed function is type-erased: called with another number of arguments
\* than its kernel takes, it either reports the failure or does not notice.
\* Then the top slot is copied to stack[size - arg_count] and the stack is
\* resized to size - arg_count + 1; with arg_count = 0 that copy writes one
\* slot past the end: the run is outside defined behaviour, or the write
\* lands in the vector's spare capacity and resize() then constructs an
\* empty object over it.
ExecInvokePacked ==
  /\ Fetchable /\ Instr.op = "InvokePacked"
  /\ LET arg_count == Instr.arity
         size == Len(stack)
         first == size - arg_count
         slots == SubSeq(stack, first + 1, size)
     IN IF ~(arg_count <= size)
        THEN /\ Halt("fatal", "arity exceeds stack")
             /\ UNCHANGED <<stack, pc, store>>
        ELSE IF ~(Instr.packed_index < Len(packed_funcs))
        THEN /\ Halt("undefined", "packed_funcs index")
             /\ UNCHANGED <<stack, pc, store>>
        ELSE IF \E i \in 1..arg_count : slots[i] = NullObject
        THEN /\ Halt("fatal", "not a tensor")
             /\ UNCHANGED <<stack, pc, store>>
        ELSE
          LET func == At(packed_funcs, Instr.packed_index)
              ins == [i \in 1..(arg_count - 1) |-> store[slots[i]].data]
              defined == \A i \in 1..(arg_count - 1) : store[slots[i]].init
              out == slots[arg_count]
          IN \/ /\ func.nargs # arg_count
                /\ Halt("fatal", "kernel failure")
                /\ UNCHANGED <<stack, pc, store>>
             \/ /\ func.nargs # arg_count
                /\ arg_count = 0
                /\ Halt("undefined", "write past the end of the stack")
                /\ UNCHANGED <<stack, pc, store>>
             \/ /\ func.nargs # arg_count
                /\ arg_count = 0
                /\ stack' = Append(stack, NullObject)
                /\ pc' = pc + 1
                /\ UNCHANGED <<status, failed, store>>
             \/ /\ func.nargs # arg_count
                /\ arg_count > 0
                /\ Halt("undefined", "kernel reads missing arguments")
                /\ UNCHANGED <<stack, pc, store>>
             \/ /\ func.nargs = arg_count
                /\ store' = [store EXCEPT ![out] =
                               [dtype |-> @.dtype,
                                data |-> IF defined THEN KernelApply(func.name, ins)
                                         ELSE 0,
                                init |-> defined]]
                /\ stack' = CollapseStack(stack, arg_count)
                /\ pc' = pc + 1
                /\ UNCHANGED <<status, failed>>
  /\ UNCHANGED <<ivars, objvars, irmod, functions, packed_funcs, frames, bp, func_index, code,
                 stack_start, entry, ninvokes>>

\* case Opcode::Ret: PopFrame, then leave the loop when the popped frame is
\* the one Run started on.
ExecRet ==
  /\ Fetchable /\ Instr.op = "Ret"
  /\ IF Len(frames) = 0
     THEN /\ Halt("fatal", "no frame")
          /\ UNCHANGED <<stack, frames, pc, bp, func_index, code>>
     ELSE IF ~PopFrame.ok
     THEN /\ Halt("fatal", "return slot")
          /\ UNCHANGED <<stack, frames, pc, bp, func_index, code>>
     ELSE /\ stack' = PopFrame.stack
          /\ frames' = PopFrame.frames
          /\ pc' = PopFrame.pc
          /\ bp' = PopFrame.bp
          /\ func_index' = PopFrame.func_index
          /\ code' = PopFrame.code
          /\ IF PopFrame.ret = stack_start
             THEN Halt("idle", "none")
             ELSE UNCHANGED <<status, failed>>
  /\ UNCHANGED <<ivars, objvars, irmod, functions, packed_funcs, stack_start, store, entry,
                 ninvokes>>

\* this->code[this->pc] with pc outside the instruction array.
FetchOutOfRange ==
  /\ Running /\ ~Fetchable
  /\ Halt("undefined", "fetch outside the code")
  /\ UNCHANGED <<ivars, objvars, irmod, functions, packed_funcs, stack, frames, pc, bp,
                 func_index, code, stack_start, store, entry, ninvokes>>

\* CompileModule(mod): a VirtualMachine with the compiled functions and the
\* kernel table, or a fatal error.
DoCompileModule ==
  /\ status = "start"
  /\ LET r == CompileModule(irmod)
     IN IF r.ok
        THEN /\ functions' = r.functions
             /\ packed_funcs' = r.packed_funcs
             /\ Halt("idle", "none")
        ELSE /\ Halt("compile_failed", r.failed)
             /\ UNCHANGED <<functions, packed_funcs>>
  /\ UNCHANGED <<ivars, objvars, irmod, stack, frames, pc, bp, func_index, code, stack_start,
                 store, entry, ninvokes>>

(***************************************************************************)
(* Inputs of the compiler and the interpreter.                             *)
(* Compiled functions take (c: bool scalar, x, y: float32 tensors) or a    *)
(* prefix-free part of them; bodies are type-checked expressions over the  *)
(* primitives neg, add (float32) and big (bool), nested MaxDepth deep.     *)
(***************************************************************************)
Add == Prim("add", 2)

Big == Prim("big", 1)

X == VarNode_make("x")

Y == VarNode_make("y")

C == VarNode_make("c")

PrimCall(prim, args, ty) == TypedCall(prim, args, 0, <<>>, ty)

RECURSIVE FloatExprs(_)
RECURSIVE BoolExprs(_)
FloatExprs(d) ==
  IF d = 0 THEN {X, Y}
  ELSE LET sub == FloatExprs(d - 1)
       IN sub
          \cup {PrimCall(Neg, <<e>>, F32) : e \in sub}
          \cup {PrimCall(Add, <<e, Y>>, F32) : e \in sub}
          \cup {PrimCall(Add, <<X, e>>, F32) : e \in sub}
          \cup {IfNode_make(b, X, Y) : b \in BoolExprs(d - 1)}
          \cup {IfNode_make(C, e, Y) : e \in sub}
          \cup {IfNode_make(C, X, e) : e \in sub}

BoolExprs(d) ==
  IF d = 0 THEN {C}
  ELSE BoolExprs(d - 1) \cup {PrimCall(Big, <<e>>, BoolT) : e \in FloatExprs(d - 1)}

\* Calls of primitives with many inputs (around the arity cap) and none.
WideCalls ==
  {PrimCall(Prim("wide", k), SeqOf(X, k), F32) :
     k \in {0, ArityCap - 2, ArityCap - 1, ArityCap}}

\* Bodies the compiler must reject.
RejectedBodies ==
  { VarNode_make("z"),
    PrimCall(VarNode_make("p"), <<X>>, F32),
    PrimCall(Closure(<<"v">>, VarNode_make("v")), <<X>>, F32),
    PrimCall(Neg, <<X>>, OtherType("tuple")),
    PrimCall(Neg, <<Neg>>, F32),
    LetNode_make("t", PrimCall(Neg, <<X>>, F32), VarNode_make("t")) }

CXY == <<"c", "x", "y">>

FirstFunctions ==
  {FunctionNode_make(CXY, b) :
     b \in FloatExprs(MaxDepth) \cup WideCalls \cup RejectedBodies}

SecondCompiled ==
  { FunctionNode_make(<<"x">>, PrimCall(Big, <<X>>, BoolT)),
    FunctionNode_make(<<"x", "y">>, PrimCall(Add, <<X, Y>>, F32)) }

\* The module whose VM also runs bytecode written by hand.
HostModule == <<FunctionNode_make(CXY, PrimCall(Neg, <<X>>, F32))>>

CompileModules ==
  {<<f>> : f \in FirstFunctions}
  \cup {<<f, g>> : f \in FirstFunctions, g \in SecondCompiled}

\* The tensors the caller owns: true, false, [7], [9].
CallerTensors ==
  << [dtype |-> "bool", data |-> 1, init |-> TRUE],
     [dtype |-> "bool", data |-> 0, init |-> TRUE],
     [dtype |-> "float32", data |-> 7, init |-> TRUE],
     [dtype |-> "float32", data |-> 9, init |-> TRUE] >>

\* Arguments for parameters ps: c is true or false, x is [7], y is [9].
ArgsFor(ps) ==
  {[i \in 1..Len(ps) |->
      CASE ps[i] = "c" -> cv [] ps[i] = "x" -> 3 [] OTHER -> 4] : cv \in {1, 2}}

\* Bytecode written by hand: up to MaxHandLen instructions, then Ret.
HandInstrs ==
  { Push(0), Push(1), If(1, 1), If(1, 2), Invoke(0),
    AllocTensor(<<>>, "bool"),
    InvokePacked(0, 0), InvokePacked(0, 1), InvokePacked(0, 2),
    InvokePacked(0, 3), InvokePacked(1, 1) }

RECURSIVE HandCode(_)
HandCode(n) ==
  IF n = 0 THEN {<<>>}
  ELSE LET shorter == HandCode(n - 1)
       IN shorter \cup {Append(is, i) : is \in shorter, i \in HandInstrs}

HandWritten ==
  {VMFunction(n, Append(is, Ret)) : n \in 0..1, is \in HandCode(MaxHandLen)}

HandArgs(n) == {SeqOf(h, n) : h \in {1, 3}} \cup {<<3>>}

(***************************************************************************)
(* The compiler and the interpreter as a state machine: a module is        *)
(* compiled, then functions are invoked on the VM, one instruction a step. *)
(***************************************************************************)
InlinerIdle ==
  /\ mods = <<>>
  /\ passed = 0
  /\ returned = 0
  /\ orig = <<>>
  /\ once = <<>>
  /\ ncalls = 0

VMIdle ==
  /\ status = "start"
  /\ failed = "none"
  /\ functions = <<>>
  /\ packed_funcs = <<>>
  /\ stack = <<>>
  /\ frames = <<>>
  /\ pc = 0
  /\ bp = 0
  /\ func_index = 0
  /\ code = <<>>
  /\ stack_start = 0
  /\ store = CallerTensors
  /\ entry = [func |-> VMFunction(0, <<>>), args |-> <<>>, height |-> 0,
              frames |-> 0, pc |-> 0, bp |-> 0, func_index |-> 0, code |-> <<>>]
  /\ ninvokes = 0

\* No Instruction object has been made outside the compiler.
ObjIdle ==
  /\ objs = <<>>
  /\ heap = <<>>
  /\ os = <<>>
  /\ shown = 0
  /\ nsteps = 0

Init ==
  /\ irmod \in CompileModules \cup {HostModule}
  /\ VMIdle
  /\ InlinerIdle
  /\ ObjIdle

InvokeCompiled ==
  /\ status = "idle"
  /\ ninvokes < MaxInvokes
  /\ \E i \in 1..Len(functions) : \E args \in ArgsFor(irmod[i].params) :
       DoInvoke(functions[i], args)

InvokeHandWritten ==
  /\ status = "idle"
  /\ ninvokes = 0
  /\ irmod = HostModule
  /\ \E func \in HandWritten : \E args \in HandArgs(func.params) :
       DoInvoke(func, args)

Next ==
  \/ DoCompileModule
  \/ InvokeCompiled
  \/ InvokeHandWritten
  \/ ExecInvoke
  \/ ExecInvokePacked
  \/ ExecIf
  \/ ExecAllocTensor
  \/ ExecPush
  \/ ExecRet
  \/ FetchOutOfRange

Spec == Init /\ [][Next]_vars

\* One iteration of the dispatch loop of Run.
RunStep ==
  \/ ExecInvoke
  \/ ExecInvokePacked
  \/ ExecIf
  \/ ExecAllocTensor
  \/ ExecPush
  \/ ExecRet
  \/ FetchOutOfRange

\* Run is a plain loop on the calling thread: once entered it keeps
\* stepping until it returns or fails.
FairSpec == Init /\ [][Next]_vars /\ WF_vars(RunStep)

(***************************************************************************)
(* Properties of the compiler and the interpreter (stated for Spec).       *)
(***************************************************************************)
\* The reference value of an expression: variables from env, a primitive
\* call by its kernel, a conditional by its condition.
RECURSIVE Eval(_, _)
RECURSIVE EvalSeq(_, _, _)
EvalSeq(es, i, env) ==
  IF i > Len(es) THEN <<>> ELSE <<Eval(es[i], env)>> \o EvalSeq(es, i + 1, env)

Eval(e, env) ==
  CASE e.kind = "Var" -> env[e.name]
    [] e.kind = "Call" -> KernelApply(e.op.name, EvalSeq(e.args, 1, env))
    [] e.kind = "If" ->
         IF Eval(e.cond, env) # 0 THEN Eval(e.true_branch, env)
         ELSE Eval(e.false_branch, env)

\* The data of the arguments of the current Invoke, by parameter name.
EnvOf(ps, args) ==
  [n \in {ps[i] : i \in 1..Len(ps)} |->
     store[args[CHOOSE i \in 1..Len(ps) : ps[i] = n]].data]

\* Invoke has returned from function i of the compiled module.
ReturnedFrom(i) ==
  /\ status = "idle"
  /\ ninvokes >= 1
  /\ i \in 1..Len(functions)
  /\ functions[i] = entry.func

\* C1: a function whose body is `if c then e1 else e2`, compiled and
\* invoked, returns the value of e1 when byte 0 of c is nonzero and the
\* value of e2 when it is zero.
C1_ConditionalResult ==
  \A i \in 1..Len(irmod) :
    (ReturnedFrom(i) /\ irmod[i].body.kind = "If") =>
      LET env == EnvOf(irmod[i].params, entry.args)
          body == irmod[i].body
      IN /\ Last(stack) # NullObject
         /\ store[Last(stack)].data =
              IF Eval(body.cond, env) # 0 THEN Eval(body.true_branch, env)
              ELSE Eval(body.false_branch, env)

\* C2: when Invoke of a compiled function returns, the value stack is
\* exactly one slot taller than before Invoke pushed the return slot and
\* the arguments, and that slot holds the result.
C2_StackGrowsByOne ==
  \A i \in 1..Len(irmod) :
    ReturnedFrom(i) =>
      /\ Len(stack) = entry.height + 1
      /\ Last(stack) # NullObject

\* The static stack rules along every path from pc with h values above the
\* argument frame: Push +1, AllocTensor +1, InvokePacked n -(n - 1),
\* If -1, and exactly one value at Ret.
RECURSIVE StaticDiscipline(_, _, _)
StaticDiscipline(instrs, at, h) ==
  IF at < 0 \/ at >= Len(instrs) THEN FALSE
  ELSE LET i == At(instrs, at)
       IN CASE i.op = "Push" -> StaticDiscipline(instrs, at + 1, h + 1)
            [] i.op = "AllocTensor" -> StaticDiscipline(instrs, at + 1, h + 1)
            [] i.op = "InvokePacked" ->
                 /\ h - (i.arity - 1) >= 0
                 /\ StaticDiscipline(instrs, at + 1, h - (i.arity - 1))
            [] i.op = "If" ->
                 /\ h - 1 >= 0
                 /\ StaticDiscipline(instrs, at + i.true_offset, h - 1)
                 /\ StaticDiscipline(instrs, at + i.false_offset, h - 1)
            [] i.op = "Ret" -> h = 1
            [] OTHER -> FALSE

\* C4: for every compiled function the static simulation never has a
\* negative height and reaches Ret with exactly one value above the
\* arguments, on every path.
C4_StaticStackDiscipline ==
  \A i \in 1..Len(functions) : StaticDiscipline(functions[i].instructions, 0, 0)

\* The primitives of the call sites of e, in the order their InvokePacked
\* instructions are emitted.
RECURSIVE CallSites(_)
RECURSIVE CallSitesOfSeq(_, _)
CallSitesOfSeq(es, i) ==
  IF i > Len(es) THEN <<>> ELSE CallSites(es[i]) \o CallSitesOfSeq(es, i + 1)

CallSites(e) ==
  CASE e.kind = "Call" -> CallSitesOfSeq(e.args, 1) \o <<e.op>>
    [] e.kind = "If" ->
         (CallSites(e.cond) \o CallSites(e.true_branch)) \o CallSites(e.false_branch)
    [] OTHER -> <<>>

IsInvokePacked(i) == i.op = "InvokePacked"

\* C5: every InvokePacked(i, n) of every compiled function has i inside the
\* kernel table, and entry i is the kernel lowered for that instruction's
\* own call site.
C5_KernelTableIndex ==
  \A f \in 1..Len(functions) :
    LET invokes == SelectSeq(functions[f].instructions, IsInvokePacked)
        sites == CallSites(irmod[f].body)
    IN \A j \in 1..Len(invokes) :
         /\ invokes[j].packed_index < Len(packed_funcs)
         /\ At(packed_funcs, invokes[j].packed_index) = Lower(sites[j])[1]

\* The first function of the module is a call of a primitive with k
\* parameters on plain variables, with a tensor result.
WideCallOf(k) ==
  /\ Len(irmod) >= 1
  /\ irmod[1].body.kind = "Call"
  /\ IsPrimitive(irmod[1].body.op)
  /\ irmod[1].body.op.nparams = k
  /\ irmod[1].body.checked_type.tensor
  /\ \A a \in 1..Len(irmod[1].body.args) : irmod[1].body.args[a] = X

\* C9: compiling a call of a primitive with k parameters emits
\* InvokePacked with arity k + 1, and is rejected by the capacity check
\* exactly when k + 1 >= 10 (9 inputs rejected, no VM function produced;
\* 8 inputs compile).
C9_ArityCap ==
  status # "start" =>
    \A k \in 0..11 :
      WideCallOf(k) =>
        IF k + 1 >= 10
        THEN /\ status = "compile_failed"
             /\ failed = "arity cap"
             /\ functions = <<>>
        ELSE /\ status # "compile_failed"
             /\ LET is == functions[1].instructions
                IN /\ is[Len(is)] = Ret
                   /\ is[Len(is) - 1] = InvokePacked(0, k + 1)

\* C9 witness: a call of a primitive with 9 inputs has been rejected.
C9_Witness ==
  /\ WideCallOf(9)
  /\ status = "compile_failed"

\* The instruction about to execute would read, pop or overwrite a stack
\* slot that does not exist.
OutOfRangeAccess ==
  /\ Fetchable
  /\ CASE Instr.op = "Push" -> bp + Instr.stack_index >= Len(stack)
       [] Instr.op = "InvokePacked" ->
            Instr.arity > Len(stack) \/ Instr.arity = 0
       [] Instr.op = "If" -> Len(stack) = 0
       [] Instr.op = "Ret" -> Len(frames) > 0 /\ Len(stack) < Last(frames).args + 1
       [] OTHER -> FALSE

\* C10: every instruction that would read, pop or overwrite a value-stack
\* slot that does not exist ends in a fatal error instead of performing
\* the access.
C10_OutOfRangeIsFatal == [][OutOfRangeAccess => status' = "fatal"]_vars

\* The position (0-based) of name n in the parameter list ps.
SlotOf(ps, n) == (CHOOSE i \in 1..Len(ps) : ps[i] = n) - 1

\* The instruction sequence the compilation scheme prescribes for e, the
\* parameters being ps and k0 kernels having been lowered before e.
RECURSIVE Scheme(_, _, _)
RECURSIVE SchemeOfSeq(_, _, _, _)
SchemeOfSeq(es, i, ps, k0) ==
  IF i > Len(es) THEN <<>>
  ELSE Scheme(es[i], ps, k0)
       \o SchemeOfSeq(es, i + 1, ps, k0 + Len(CallSites(es[i])))

Scheme(e, ps, k0) ==
  CASE e.kind = "Var" -> <<Push(SlotOf(ps, e.name))>>
    [] e.kind = "Call" ->
         SchemeOfSeq(e.args, 1, ps, k0)
         \o <<AllocTensor(e.checked_type.shape, e.checked_type.dtype),
              InvokePacked(k0 + Len(CallSitesOfSeq(e.args, 1)), Len(e.args) + 1)>>
    [] e.kind = "If" ->
         LET t == Scheme(e.true_branch, ps, k0 + Len(CallSites(e.cond)))
         IN ((Scheme(e.cond, ps, k0) \o <<If(1, Len(t) + 1)>>) \o t)
            \o Scheme(e.false_branch, ps,
                      (k0 + Len(CallSites(e.cond))) + Len(CallSites(e.true_branch)))

IsRet(i) == i.op = "Ret"

\* C12: a function whose body is a call of a primitive compiles to the code
\* of the arguments left to right, one AllocTensor of the call's result
\* shape and dtype, InvokePacked(i, k + 1) with i the index of the call's
\* kernel in the function's kernel list, and one Ret, the last instruction.
C12_CallLayout ==
  \A f \in 1..Len(functions) :
    irmod[f].body.kind = "Call" =>
      /\ functions[f].instructions = Append(Scheme(irmod[f].body, irmod[f].params, 0), Ret)
      /\ Len(SelectSeq(functions[f].instructions, IsRet)) = 1

\* C12 witness: fn(x, y) { add(x, y) } has been compiled to
\* push 0; push 1; alloc_tensor; invoke_packed 0 3; ret.
C12_Witness ==
  /\ Len(functions) = 2
  /\ irmod[2].body = PrimCall(Add, <<X, Y>>, F32)
  /\ functions[2].instructions =
       <<Push(0), Push(1), AllocTensor(F32.shape, F32.dtype), InvokePacked(0, 3), Ret>>

\* The function being run was produced by the compiler.
RunsCompiled == \E f \in 1..Len(functions) : functions[f] = entry.func

\* The step executes Ret and PopFrame passes its checks.
RetStep ==
  /\ Fetchable
  /\ Instr.op = "Ret"
  /\ Len(frames) > 0
  /\ PopFrame.ok

\* C13: Ret copies the top of the stack into the return slot of the
\* returning frame, the slot at index bp - 1 pushed as a placeholder before
\* the arguments, and removes the arguments and temporaries, so that the
\* return slot is the top of the stack afterwards.
C13_RetFillsReturnSlot ==
  [][(RetStep /\ RunsCompiled) =>
       /\ Len(stack') = (bp - 1) + 1
       /\ At(stack', bp - 1) = Last(stack)]_vars

\* The step executes InvokePacked(i, n) with 1 <= n <= stack size and the
\* kernel call returns.
InvokePackedStep ==
  /\ Fetchable
  /\ Instr.op = "InvokePacked"
  /\ Instr.arity >= 1
  /\ Instr.arity <= Len(stack)
  /\ status' = "running"

\* The data of the k values under the top n - k of the stack, in stack
\* order.
TopData(n, k) == [j \in 1..k |-> store[stack[Len(stack) - n + j]].data]

\* C14: InvokePacked(i, n), n >= 1, with at least n values on the stack
\* passes the top n values in stack order to kernel i (n - 1 inputs, then
\* the output tensor), leaves the stack n - 1 slots shorter with the top
\* value in the slot of the first argument, the slots below unchanged, and
\* pc advanced by one.
C14_InvokePackedEffect ==
  [][InvokePackedStep =>
       LET n == Instr.arity
           first == Len(stack) - n + 1
           kernel == At(packed_funcs, Instr.packed_index)
       IN /\ Len(stack') = Len(stack) - (n - 1)
          /\ stack'[first] = Last(stack)
          /\ \A j \in 1..(first - 1) : stack'[j] = stack[j]
          /\ pc' = pc + 1
          /\ (\A j \in 1..(n - 1) : store[stack[first + j - 1]].init) =>
               /\ store'[Last(stack)].init
               /\ store'[Last(stack)].data = KernelApply(kernel.name, TopData(n, n - 1))]_vars

\* C14 witness: a kernel has filled the tensor on top of the stack, which
\* lies in the slot of its first argument (fn(c, x, y) { add(x, y) }).
C14_Witness ==
  /\ status = "running"
  /\ pc >= 1
  /\ pc < Len(code)
  /\ At(code, pc - 1) = InvokePacked(0, 3)
  /\ Len(stack) = bp + Len(CXY) + 1
  /\ Last(stack) > Len(CallerTensors)
  /\ store[Last(stack)].init

\* C15: the dispatch loop started by Invoke exits at, and only at, the Ret
\* that pops the frame pushed by that Invoke (a Ret that pops a deeper
\* frame continues dispatch), and when Invoke returns the frame stack, bp,
\* func_index and code are as they were just before Invoke was called.
C15_ExitAtEntryFrame ==
  [][/\ RetStep =>
          /\ (status' = "idle") <=> (Len(frames) = entry.frames + 1)
          /\ (Len(frames) > entry.frames + 1) => (status' = "running")
     /\ (status = "running" /\ status' = "idle") =>
          /\ RetStep
          /\ Len(frames') = entry.frames
          /\ bp' = entry.bp
          /\ func_index' = entry.func_index
          /\ code' = entry.code]_vars

\* C15 witness: the second Invoke on a VM has returned from its Ret.
C15_Witness ==
  /\ status = "idle"
  /\ ninvokes = 2
  /\ Len(frames) = entry.frames
  /\ code = entry.code

\* The first function of the module is a conditional with a conditional
\* in its true branch.
NestedConditional ==
  /\ Len(irmod) >= 1
  /\ irmod[1].body.kind = "If"
  /\ irmod[1].body.true_branch.kind = "If"
  /\ functions # <<>>
  /\ entry.func = functions[1]

IsIf(i) == i.op = "If"

\* C17: every If the compiler emits, nested ones included, has
\* true_offset = 1 and false_offset = 1 + the number of instructions of its
\* true branch, so pc + false_offset is the first instruction of the false
\* branch.
C17_BackPatch ==
  \A f \in 1..Len(functions) :
    LET is == functions[f].instructions
        scheme == Scheme(irmod[f].body, irmod[f].params, 0)
    IN /\ Len(SelectSeq(is, IsIf)) = Len(SelectSeq(scheme, IsIf))
       /\ \A q \in 1..Len(is) :
            is[q].op = "If" =>
              /\ q <= Len(scheme)
              /\ scheme[q].op = "If"
              /\ is[q].true_offset = 1
              /\ is[q].false_offset = scheme[q].false_offset

\* C17 witness: a conditional nested in a conditional has been compiled.
C17_Witness ==
  /\ Len(irmod) >= 1
  /\ irmod[1].body.kind = "If"
  /\ irmod[1].body.true_branch.kind = "If"
  /\ functions # <<>>
  /\ Len(SelectSeq(functions[1].instructions, IsIf)) = 2

\* Every Push of every compiled function names a parameter slot, the one
\* the parameter has in declaration order.
IsPush(i) == i.op = "Push"

PushSlotsDeclared ==
  \A f \in 1..Len(functions) :
    /\ \A q \in 1..Len(functions[f].instructions) :
         functions[f].instructions[q].op = "Push" =>
           functions[f].instructions[q].stack_index < functions[f].params
    /\ SelectSeq(functions[f].instructions, IsPush)
         = SelectSeq(Scheme(irmod[f].body, irmod[f].params, 0), IsPush)

\* The step executes Push in a run of a compiled function.
PushStep ==
  /\ Fetchable
  /\ Instr.op = "Push"
  /\ RunsCompiled

\* C18: parameters get the slots 0..p-1 in declaration order and every
\* Push s emitted has s < p, so in a run of a compiled function the bounds
\* check of Push never fails and Push s copies the s-th argument of the
\* current call.
C18_PushReadsArgument ==
  [][/\ PushSlotsDeclared'
     /\ PushStep =>
          /\ status' = "running"
          /\ Last(stack') = entry.args[Instr.stack_index + 1]]_vars

\* C18 witness: Push 2 has copied the third argument of fn(c, x, y).
C18_Witness ==
  /\ status = "running"
  /\ RunsCompiled
  /\ pc >= 1
  /\ At(code, pc - 1) = Push(2)
  /\ Len(entry.args) = 3
  /\ Last(stack) = entry.args[3]
  /\ Len(stack) = bp + 4

\* The ways a kernel call does not return.
KernelCallFailed ==
  /\ status \in {"fatal", "undefined"}
  /\ failed \in {"kernel failure", "kernel reads missing arguments"}

\* C19: Invoke of a compiled function terminates when every kernel call
\* returns: every step of the run strictly increases pc, so no instruction
\* is executed twice, and the run reaches the Ret that returns.
C19_Terminates ==
  /\ [][(status = "running" /\ RunsCompiled /\ status' = "running") => pc' > pc]_vars
  /\ (status = "running" /\ RunsCompiled) ~> (status = "idle" \/ KernelCallFailed)

\* C19 witness: the run of a conditional nested in a conditional has
\* returned.
C19_Witness ==
  /\ NestedConditional
  /\ status = "idle"
  /\ ninvokes >= 1

(***************************************************************************)
(* vm.cc, lines 19-128: Instruction objects.  An Instruction is made by    *)
(* one of the constructor functions, copied by its copy constructor,       *)
(* printed by InstructionPrint and destroyed by its destructor.  The shape *)
(* of an AllocTensor is an array made by new[]: tensor_info.shape is the   *)
(* address of that array in heap.                                          *)
(***************************************************************************)
Operands == 0..MaxOperand

Shapes == {<<>>, <<4>>, <<2, 3>>}

DTypes == {"float32", "bool"}

\* AllocTensor(shape, dtype) given the address of the array it made.
AllocTensorAt(ptr, ndim, dtype) ==
  [op |-> "AllocTensor",
   tensor_info |-> [shape |-> ptr, ndim |-> ndim, dtype |-> dtype]]

\* The instructions without a shape.
PlainInstrs ==
  {Push(s0) : s0 \in Operands} \cup {Ret}
  \cup {InvokePacked(i, n) : i \in Operands, n \in Operands}
  \cup {If(t, f) : t \in Operands, f \in Operands}
  \cup {Invoke(i) : i \in Operands}

\* Instruction::Instruction(const Instruction&): the fields of the opcode
\* are assigned one by one; tensor_info is assigned as a struct, so the
\* copy holds the same address.
CopyInstr(instr) ==
  CASE instr.op = "Push" -> [op |-> instr.op, stack_index |-> instr.stack_index]
    [] instr.op = "Ret" -> [op |-> instr.op]
    [] instr.op = "AllocTensor" -> [op |-> instr.op, tensor_info |-> instr.tensor_info]
    [] instr.op = "InvokePacked" ->
         [op |-> instr.op, packed_index |-> instr.packed_index, arity |-> instr.arity]
    [] instr.op = "If" ->
         [op |-> instr.op, true_offset |-> instr.true_offset,
          false_offset |-> instr.false_offset]
    [] instr.op = "Invoke" -> [op |-> instr.op, func_index |-> instr.func_index]

\* What operator<< appends to the stream: a string, a number, a type.
Lit(str) == [lit |-> str]

Num(n) == [num |-> n]

Ty(dtype) == [type |-> dtype]

\* The loop of the AllocTensor case: every dimension, then ", ".
RECURSIVE PrintDims(_, _, _)
PrintDims(data, i, ndim) ==
  IF i >= ndim THEN <<>>
  ELSE <<Num(At(data, i)), Lit(", ")>> \o PrintDims(data, i + 1, ndim)

\* InstructionPrint(os, instr).  The If case has no break and runs into
\* the Invoke case; the Invoke case writes false_offset, a field that an
\* Invoke instruction never assigned: stale is the value read there.
InstructionPrint(instr, h, stale) ==
  CASE instr.op = "Push" -> <<Lit("push "), Num(instr.stack_index)>>
    [] instr.op = "Ret" -> <<Lit("ret")>>
    [] instr.op = "InvokePacked" ->
         <<Lit("invoke_packed "), Num(instr.packed_index), Lit(" "), Num(instr.arity)>>
    [] instr.op = "AllocTensor" ->
         (<<Lit("alloc_tensor"), Lit("(")>>
          \o PrintDims(h[instr.tensor_info.shape].data, 0, instr.tensor_info.ndim))
         \o <<Lit(") "), Ty(instr.tensor_info.dtype)>>
    [] instr.op = "If" ->
         <<Lit("if "), Num(instr.true_offset), Lit(" "), Num(instr.false_offset)>>
         \o <<Lit("invoke "), Num(instr.false_offset)>>
    [] instr.op = "Invoke" -> <<Lit("invoke "), Num(stale)>>

\* One Instruction has been made by a constructor function.
InitInstr ==
  /\ \/ \E instr \in PlainInstrs :
          /\ objs = <<[instr |-> instr, live |-> TRUE]>>
          /\ heap = <<>>
     \/ \E shape \in Shapes : \E dtype \in DTypes :
          /\ heap = <<[data |-> shape, freed |-> FALSE]>>
          /\ objs = <<[instr |-> AllocTensorAt(1, Len(shape), dtype), live |-> TRUE]>>
  /\ os = <<>>
  /\ shown = 0
  /\ nsteps = 0
  /\ irmod = <<>>
  /\ VMIdle
  /\ InlinerIdle

\* The copy constructor, e.g. instructions.push_back(instr).
CopyInstruction ==
  /\ nsteps < MaxObjSteps
  /\ \E i \in 1..Len(objs) :
       /\ objs[i].live
       /\ objs' = Append(objs, [instr |-> CopyInstr(objs[i].instr), live |-> TRUE])
  /\ nsteps' = nsteps + 1
  /\ UNCHANGED <<ivars, vmvars, heap, os, shown>>

\* Instruction::~Instruction() {}: nothing is released.
DestroyInstruction ==
  /\ nsteps < MaxObjSteps
  /\ \E i \in 1..Len(objs) :
       /\ objs[i].live
       /\ objs' = [objs EXCEPT ![i].live = FALSE]
  /\ nsteps' = nsteps + 1
  /\ UNCHANGED <<ivars, vmvars, heap, os, shown>>

PrintInstruction ==
  /\ nsteps < MaxObjSteps
  /\ \E i \in 1..Len(objs) : \E stale \in Operands :
       /\ objs[i].live
       /\ os' = InstructionPrint(objs[i].instr, heap, stale)
       /\ shown' = i
  /\ nsteps' = nsteps + 1
  /\ UNCHANGED <<ivars, vmvars, objs, heap>>

NextInstr ==
  \/ CopyInstruction
  \/ DestroyInstruction
  \/ PrintInstruction

SpecInstr == InitInstr /\ [][NextInstr]_vars

(***************************************************************************)
(* Properties of Instruction objects (stated for SpecInstr).               *)
(***************************************************************************)
\* The dimensions read back from `d0, d1, ..., ` (ok is FALSE when the
\* tokens are not of that form).
RECURSIVE ParseDims(_, _)
ParseDims(text, i) ==
  IF i > Len(text) THEN [ok |-> TRUE, dims |-> <<>>]
  ELSE IF i + 1 > Len(text) \/ "num" \notin DOMAIN text[i]
          \/ text[i + 1] # Lit(", ")
       THEN [ok |-> FALSE, dims |-> <<>>]
       ELSE LET rest == ParseDims(text, i + 2)
            IN [ok |-> rest.ok, dims |-> <<text[i].num>> \o rest.dims]

IsNum(text, i) == i <= Len(text) /\ "num" \in DOMAIN text[i]

NoParse == [op |-> "none"]

\* Reading a text back by the six forms: push <s>, ret,
\* invoke_packed <i> <n>, alloc_tensor(...) <dtype>, if <t> <f>, invoke <i>.
ParseInstruction(text) ==
  IF Len(text) = 0 THEN NoParse
  ELSE IF text[1] = Lit("push ")
  THEN IF Len(text) = 2 /\ IsNum(text, 2) THEN Push(text[2].num) ELSE NoParse
  ELSE IF text[1] = Lit("ret")
  THEN IF Len(text) = 1 THEN Ret ELSE NoParse
  ELSE IF text[1] = Lit("invoke_packed ")
  THEN IF Len(text) = 4 /\ IsNum(text, 2) /\ text[3] = Lit(" ") /\ IsNum(text, 4)
       THEN InvokePacked(text[2].num, text[4].num) ELSE NoParse
  ELSE IF text[1] = Lit("if ")
  THEN IF Len(text) = 4 /\ IsNum(text, 2) /\ text[3] = Lit(" ") /\ IsNum(text, 4)
       THEN If(text[2].num, text[4].num) ELSE NoParse
  ELSE IF text[1] = Lit("invoke ")
  THEN IF Len(text) = 2 /\ IsNum(text, 2) THEN Invoke(text[2].num) ELSE NoParse
  ELSE IF text[1] = Lit("alloc_tensor")
  THEN IF Len(text) >= 4 /\ text[2] = Lit("(") /\ text[Len(text) - 1] = Lit(") ")
          /\ "type" \in DOMAIN text[Len(text)]
       THEN LET ds == ParseDims(SubSeq(text, 3, Len(text) - 2), 1)
            IN IF ds.ok THEN AllocTensor(ds.dims, text[Len(text)].type) ELSE NoParse
       ELSE NoParse
  ELSE NoParse

\* An instruction with its shape by value (what the text is to give back).
ByValue(instr) ==
  IF instr.op = "AllocTensor"
  THEN AllocTensor(heap[instr.tensor_info.shape].data, instr.tensor_info.dtype)
  ELSE instr

\* C11: the text InstructionPrint writes for an instruction is of the form
\* of its opcode alone, and reading it back gives the opcode and every
\* operand of the instruction (for invoke, its func_index).
C11_PrintRoundTrip ==
  shown # 0 => ParseInstruction(os) = ByValue(objs[shown].instr)

\* Two distinct AllocTensor objects hold the same array.
SharedShape(i, j) ==
  /\ i # j
  /\ objs[i].instr.op = "AllocTensor"
  /\ objs[j].instr.op = "AllocTensor"
  /\ objs[i].instr.tensor_info.shape = objs[j].instr.tensor_info.shape

\* Some live AllocTensor object holds the array at address a.
Owned(a) ==
  \E i \in 1..Len(objs) :
    /\ objs[i].live
    /\ objs[i].instr.op = "AllocTensor"
    /\ objs[i].instr.tensor_info.shape = a

\* C20: no two live instructions hold the same shape array (a copy has an
\* array of its own), and an array whose instruction has been destroyed is
\* released.
C20_ShapeOwnedExclusively ==
  /\ \A i, j \in 1..Len(objs) : (objs[i].live /\ objs[j].live) => ~SharedShape(i, j)
  /\ \A a \in 1..Len(heap) : ~Owned(a) => heap[a].freed

====
